---- MODULE Spec2Model ----
(***************************************************************************)
(* Scan-lifecycle controller and device registry of the Bluetooth scanner  *)
(* screens of src/unnamed/part_001: the all-devices screen (lines 1-450)   *)
(* and the targeted-scanning screen (lines 452-1094).  The two components  *)
(* are the same line for line except for the poll callback of startScan,   *)
(* so one model covers both and the variable screen says which one runs.   *)
(*                                                                         *)
(* The screen is a React component.  Its state is the four useState cells  *)
(* (devices, isScanning, bluetoothEnabled, error) and the scanIntervalRef  *)
(* ref.  Everything runs on one JavaScript event loop: a handler runs      *)
(* without interruption up to its next await, so every action below is one *)
(* such run-to-completion segment.  The native BLE module, the permission  *)
(* service, the timers and the user are the environment.  The component    *)
(* stays mounted: the cleanup of its effect is not part of the model.      *)
(* Invocations of startScan keep no local state across their awaits, so    *)
(* they are counted per await rather than told apart.                      *)
(***************************************************************************)
EXTENDS Integers, Sequences, FiniteSets, TLC

(***************************************************************************)
(* Bounds of the model.                                                    *)
(***************************************************************************)
MaxStarts == 2       \* startScan invocations suspended at an await at once
MaxIntervals == 2    \* setInterval handles armed at once
MaxTimeouts == 2     \* duration timers pending at once
MaxStops == 1        \* stopScan invocations suspended at their await at once
MaxFetches == 1      \* poll fetches in flight at once
MaxTime == 1         \* largest value Date.now() returns
MaxMergeTime == 2    \* the same, in SpecMerge
MaxEvents == 3       \* length of an event sequence in SpecMerge
MaxSnapshot == 2     \* length of a discovered-peripheral snapshot
MaxRefreshes == 1    \* refreshDevices invocations suspended at their second await
MaxConnected == 2    \* length of a connected-peripheral list
MaxEffectRuns == 2   \* part_000: effect runs counted (the counter saturates)
MaxStatus == 1       \* part_000: checkBluetoothStatus invocations in flight at once
MaxNotices == 1      \* BleManagerStopScan notifications emitted and not yet delivered

(***************************************************************************)
(* Program constants.                                                      *)
(***************************************************************************)
TargetName == "ZT02"
TargetId == "E5:83:27:D1:D2:94"
OtherId == "AA:BB"
OtherName == "Other"

NULL == 0            \* scanIntervalRef.current === null

NoError == "null"
PermissionError == "Failed to obtain necessary permissions"
ScanStartError == "Failed to start scanning: "
ScanStopError == "Error stopping scan: "

Permissions == {"ACCESS_FINE_LOCATION", "BLUETOOTH_SCAN", "BLUETOOTH_CONNECT"}
GRANTED == "granted"
PermissionStatuses == {GRANTED, "denied"}

(***************************************************************************)
(* What the native module can report.  A peripheral is the object of a     *)
(* BleManagerDiscoverPeripheral event or an element of the array that      *)
(* getDiscoveredPeripherals resolves with.                                 *)
(***************************************************************************)
Ids == {TargetId, OtherId}
Names == {TargetName, OtherName}
Rssis == {-70, -55}
Peripherals == [id : Ids, name : Names, rssi : Rssis]

\* the peripherals in range of the phone while the screen is open
Nearby ==
  {[id |-> TargetId, name |-> TargetName, rssi |-> -70],
   [id |-> OtherId, name |-> OtherName, rssi |-> -70]}

Times == 1..MaxTime

IdsOf(list) == {list[i].id : i \in 1..Len(list)}

DistinctIds(list) == \A i, j \in 1..Len(list) : list[i].id = list[j].id => i = j

\* arrays getDiscoveredPeripherals may resolve with (distinct identifiers)
Snapshots ==
  {s \in UNION {[1..n -> Nearby] : n \in 0..MaxSnapshot} : DistinctIds(s)}

\* PermissionsAndroid.requestMultiple: resolves with a map, or rejects
PermissionOutcomes ==
  {[rejected |-> FALSE, granted |-> g] : g \in [Permissions -> PermissionStatuses]}
    \cup {[rejected |-> TRUE, granted |-> [p \in Permissions |-> "denied"]]}

VARIABLES
  screen,           \* which of the two components is mounted
  devices,          \* useState([]): the device registry, a sequence of records
  isScanning,       \* useState(false)
  bluetoothEnabled, \* useState(false)
  error,            \* useState(null)
  scanIntervalRef,  \* useRef(null): handle of the poll interval, or NULL
  intervals,        \* setInterval handles armed in the JavaScript runtime
  timeouts,         \* number of pending setTimeout(stopScan) duration timers
  startPc,          \* per await of startScan: the invocations suspended at it
  stopPending,      \* stopScan invocations suspended at await BleManager.stopScan()
  fetchPending,     \* poll callbacks suspended at await getDiscoveredPeripherals()
  nativeScanning,   \* the native module is scanning (it emits events while it is)
  probePending,     \* checkInitialBluetoothState is suspended at await checkState()
  now,              \* last value returned by Date.now()
  events,           \* SpecMerge, SpecPoll, SpecFetch, SpecMirror only: the inputs so far
  refreshing,       \* part_000: per refreshDevices invocation suspended at
                    \* await getConnectedPeripherals(), its discoveredPeripherals
  scanning,         \* part_000: useState(false)
  scanInterval,     \* part_000: useState(null), handle of the poll interval or NULL
  intervalTimeouts, \* part_000: interval handles whose 10 s setTimeout is pending
  effectRuns,       \* part_000: runs of the effect with deps [scanInterval]
  oldPc,            \* part_000: per await of startScan, the invocations suspended
  stopCalls,        \* part_000: per stopScan invocation suspended at its await, the
                    \* scanInterval its closure captured
  statusPending,    \* part_000: checkBluetoothStatus invocations in flight
  notices           \* SpecNotify only: BleManagerStopScan notifications the native
                    \* module has emitted in answer to a stop call, not yet delivered

vars == <<screen, devices, isScanning, bluetoothEnabled, error, scanIntervalRef, intervals,
          timeouts, startPc, stopPending, fetchPending, nativeScanning, probePending,
          now, events, refreshing, scanning, scanInterval, intervalTimeouts,
          effectRuns, oldPc, stopCalls, statusPending, notices>>

\* the state of the part_000 screen that part_001 does not have
oldVars == <<scanning, scanInterval, intervalTimeouts, effectRuns, oldPc, stopCalls,
             statusPending>>

\* the awaits of the part_000 startScan, in program order
OldAwaits == {"permissions", "connected", "scan"}

Handles == 1..MaxIntervals

\* the awaits of startScan, in program order
Awaits == {"permissions", "enable", "scan"}

StartsInFlight == startPc["permissions"] + startPc["enable"] + startPc["scan"]

\* one invocation moves from one await to the next, or returns
Resume(from, to) ==
  IF to = "return"
    THEN [startPc EXCEPT ![from] = @ - 1]
    ELSE [startPc EXCEPT ![from] = @ - 1, ![to] = @ + 1]

Screens == {"all", "target"}

Init ==
  /\ screen \in Screens
  /\ devices = <<>>
  /\ isScanning = FALSE
  /\ bluetoothEnabled = FALSE
  /\ error = NoError
  /\ scanIntervalRef = NULL
  /\ intervals = {}
  /\ timeouts = 0
  /\ startPc = [a \in Awaits |-> 0]
  /\ stopPending = 0
  /\ fetchPending = 0
  /\ nativeScanning = FALSE
  /\ probePending = TRUE
  /\ now = 1
  /\ events = <<>>
  /\ refreshing = <<>>
  /\ scanning = FALSE
  /\ scanInterval = NULL
  /\ intervalTimeouts = {}
  /\ effectRuns = 1
  /\ oldPc = [a \in OldAwaits |-> 0]
  /\ stopCalls = <<>>
  /\ statusPending = 1
  /\ notices = 0

(***************************************************************************)
(* Pure parts of the handlers.                                             *)
(***************************************************************************)

\* checkPermissions: true iff the request resolved and every status is GRANTED
checkPermissions(outcome) ==
  /\ ~outcome.rejected
  /\ \A p \in Permissions : outcome.granted[p] = GRANTED

\* { ...peripheral, timestamp: Date.now() }
Stamped(peripheral, t) == [timestamp |-> t] @@ peripheral

\* a merge that keeps the record the registry already has for the identifier
handleDiscoverPeripheral_KeepsOld(prevDevices, peripheral, t) ==
  IF \E i \in 1..Len(prevDevices) : prevDevices[i].id = peripheral.id
    THEN prevDevices
    ELSE Append(prevDevices, Stamped(peripheral, t))

\* a merge that moves the record of a known identifier to the end
handleDiscoverPeripheral_MovesToEnd(prevDevices, peripheral, t) ==
  LET IsOther(device) == device.id # peripheral.id
  IN  Append(SelectSeq(prevDevices, IsOther), Stamped(peripheral, t))

\* a merge that appends the incoming record whether or not the identifier
\* is already there
handleDiscoverPeripheral_AlwaysAppends(prevDevices, peripheral, t) ==
  Append(prevDevices, Stamped(peripheral, t))

\* a merge that replaces the registry by the incoming record
handleDiscoverPeripheral_DropsOthers(prevDevices, peripheral, t) ==
  <<Stamped(peripheral, t)>>

\* the updater handleDiscoverPeripheral passes to setDevices
handleDiscoverPeripheral(prevDevices, peripheral, t) ==
  LET deviceExists == \E i \in 1..Len(prevDevices) : prevDevices[i].id = peripheral.id
  IN  IF ~deviceExists
        THEN Append(prevDevices, Stamped(peripheral, t))
        ELSE [i \in 1..Len(prevDevices) |->
                IF prevDevices[i].id = peripheral.id
                  THEN Stamped(peripheral, t)
                  ELSE prevDevices[i]]

\* the predicate of peripherals.find(...) in the poll callback
IsTarget(device) == device.name = TargetName \/ device.id = TargetId

\* peripherals.find(IsTarget): <<the first match>>, or <<>> for undefined
FindTarget(peripherals) ==
  LET hits == {i \in 1..Len(peripherals) : IsTarget(peripherals[i])}
  IN  IF hits = {} THEN <<>>
      ELSE <<peripherals[CHOOSE i \in hits : \A j \in hits : i <= j]>>

\* targeted screen: the registry after the poll callback has processed a
\* resolved fetch (if (targetDevice) setDevices([targetDevice]))
PollUpdateTarget(prevDevices, peripherals) ==
  IF FindTarget(peripherals) # <<>> THEN FindTarget(peripherals) ELSE prevDevices

\* a callback that writes only into an empty registry
PollUpdateAll_KeepsFirst(prevDevices, peripherals) ==
  IF Len(prevDevices) > 0 THEN prevDevices ELSE peripherals

\* a callback that adds the snapshot to what the registry holds
PollUpdateAll_Appends(prevDevices, peripherals) == prevDevices \o peripherals

\* all-devices screen: if (peripherals.length > 0) setDevices(peripherals)
PollUpdateAll(prevDevices, peripherals) ==
  IF Len(peripherals) > 0 THEN peripherals ELSE prevDevices

PollUpdate(prevDevices, peripherals) ==
  IF screen = "target"
    THEN PollUpdateTarget(prevDevices, peripherals)
    ELSE PollUpdateAll(prevDevices, peripherals)

\* JavaScript values the adapter-state handler can be called with: the string
\* checkState() resolves with, or the event object of BleManagerDidUpdateState
AdapterStates == {"on", "off"}
StateString(s) == [type |-> "string", value |-> s]
StateEvent(s) == [type |-> "object", state |-> s]

\* isEnabled of handleBluetoothStateChange: state === "on" || "On" || "ON"
handleBluetoothStateChange(state) ==
  state \in {StateString("on"), StateString("On"), StateString("ON")}

(***************************************************************************)
(* stopScan() up to its await: cancel the interval held in the ref, then   *)
(* call BleManager.stopScan().  It is called by the duration timer and by  *)
(* the BleManagerStopScan listener.                                        *)
(***************************************************************************)
ClearIntervalRef ==
  /\ intervals' = intervals \ {scanIntervalRef}
  /\ scanIntervalRef' = NULL

StopScanCall ==
  /\ stopPending < MaxStops
  /\ ClearIntervalRef
  /\ stopPending' = stopPending + 1

(***************************************************************************)
(* startScan                                                               *)
(***************************************************************************)

\* The scan button: disabled={isScanning}
ScanButtonEnabled == ~isScanning

\* The scan button: onPress={isScanning ? stopScan : startScan}
ScanButtonHandler == IF isScanning THEN "stopScan" ELSE "startScan"

\* The scan button: onPress is startScan while isScanning is false, and the
\* button is disabled while isScanning is true.  startScan runs up to
\* await checkPermissions() -> await PermissionsAndroid.requestMultiple().
PressScan ==
  /\ ScanButtonEnabled
  /\ ScanButtonHandler = "startScan"
  /\ StartsInFlight < MaxStarts
  /\ startPc' = [startPc EXCEPT !["permissions"] = @ + 1]
  /\ error' = NoError
  /\ UNCHANGED <<screen, devices, isScanning, bluetoothEnabled, scanIntervalRef, intervals,
                 timeouts, stopPending, fetchPending, nativeScanning, probePending,
                 now, events, refreshing, oldVars, notices>>

\* a startScan that goes on whatever checkPermissions returned
PermissionsResult_IgnoresRefusal(outcome) ==
  /\ startPc["permissions"] > 0
  /\ startPc' = Resume("permissions", "enable")
  /\ error' = IF checkPermissions(outcome) THEN error ELSE PermissionError
  /\ UNCHANGED <<screen, devices, isScanning, bluetoothEnabled, scanIntervalRef, intervals,
                 timeouts, stopPending, fetchPending, nativeScanning, probePending,
                 now, events, refreshing, oldVars, notices>>

\* requestMultiple settles; on success startScan goes on to
\* await BleManager.enableBluetooth()
PermissionsResult(outcome) ==
  /\ startPc["permissions"] > 0
  /\ IF checkPermissions(outcome)
       THEN /\ startPc' = Resume("permissions", "enable")
            /\ error' = error
       ELSE /\ startPc' = Resume("permissions", "return")
            /\ error' = PermissionError
  /\ UNCHANGED <<screen, devices, isScanning, bluetoothEnabled, scanIntervalRef, intervals,
                 timeouts, stopPending, fetchPending, nativeScanning, probePending,
                 now, events, refreshing, oldVars, notices>>

\* enableBluetooth() resolves: clear the registry, mark scanning, clear any
\* existing interval, and call BleManager.scan()
EnableBluetoothOk ==
  /\ startPc["enable"] > 0
  /\ devices' = <<>>
  /\ isScanning' = TRUE
  /\ ClearIntervalRef
  /\ startPc' = Resume("enable", "scan")
  /\ UNCHANGED <<screen, bluetoothEnabled, error, timeouts, stopPending, fetchPending,
                 nativeScanning, probePending, now, events, refreshing, oldVars, notices>>

\* enableBluetooth() rejects: an alert, and startScan returns
EnableBluetoothFails ==
  /\ startPc["enable"] > 0
  /\ startPc' = Resume("enable", "return")
  /\ UNCHANGED <<screen, devices, isScanning, bluetoothEnabled, error, scanIntervalRef,
                 intervals, timeouts, stopPending, fetchPending, nativeScanning,
                 probePending, now, events, refreshing, oldVars, notices>>

\* BleManager.scan() resolves: arm the poll interval, keep its handle in the
\* ref, and schedule the duration timer
ScanOk ==
  /\ startPc["scan"] > 0
  /\ timeouts < MaxTimeouts
  /\ \E h \in Handles \ intervals :
       /\ \A g \in Handles \ intervals : h <= g
       /\ intervals' = intervals \cup {h}
       /\ scanIntervalRef' = h
  /\ timeouts' = timeouts + 1
  /\ nativeScanning' = TRUE
  /\ startPc' = Resume("scan", "return")
  /\ UNCHANGED <<screen, devices, isScanning, bluetoothEnabled, error, stopPending,
                 fetchPending, probePending, now, events, refreshing, oldVars, notices>>

\* a catch block that does not cancel the interval held in the ref
ScanFails_NoCleanup ==
  /\ startPc["scan"] > 0
  /\ error' = ScanStartError
  /\ isScanning' = FALSE
  /\ startPc' = Resume("scan", "return")
  /\ UNCHANGED <<screen, devices, bluetoothEnabled, scanIntervalRef, intervals,
                 timeouts, stopPending, fetchPending, nativeScanning, probePending,
                 now, events, refreshing, oldVars, notices>>

\* a catch block without setIsScanning(false)
ScanFails_StaysScanning ==
  /\ startPc["scan"] > 0
  /\ error' = ScanStartError
  /\ ClearIntervalRef
  /\ startPc' = Resume("scan", "return")
  /\ UNCHANGED <<screen, devices, isScanning, bluetoothEnabled, timeouts, stopPending,
                 fetchPending, nativeScanning, probePending, now, events, refreshing, oldVars, notices>>

\* BleManager.scan() rejects: the catch block of startScan
ScanFails ==
  /\ startPc["scan"] > 0
  /\ error' = ScanStartError
  /\ isScanning' = FALSE
  /\ ClearIntervalRef
  /\ startPc' = Resume("scan", "return")
  /\ UNCHANGED <<screen, devices, bluetoothEnabled, timeouts, stopPending, fetchPending,
                 nativeScanning, probePending, now, events, refreshing, oldVars, notices>>

(***************************************************************************)
(* The poll interval                                                       *)
(***************************************************************************)

\* an armed interval ticks: its callback calls getDiscoveredPeripherals()
PollTick(h) ==
  /\ h \in intervals
  /\ fetchPending < MaxFetches
  /\ fetchPending' = fetchPending + 1
  /\ UNCHANGED <<screen, devices, isScanning, bluetoothEnabled, error, scanIntervalRef,
                 intervals, timeouts, startPc, stopPending, nativeScanning,
                 probePending, now, events, refreshing, oldVars, notices>>

\* the fetch resolves with an array of peripherals
PollFetchOk(peripherals) ==
  /\ fetchPending > 0
  /\ fetchPending' = fetchPending - 1
  /\ devices' = PollUpdate(devices, peripherals)
  /\ UNCHANGED <<screen, isScanning, bluetoothEnabled, error, scanIntervalRef, intervals,
                 timeouts, startPc, stopPending, nativeScanning, probePending,
                 now, events, refreshing, oldVars, notices>>

\* a catch block that gives up polling: it cancels the interval of the ref
PollFetchFails_StopsPolling ==
  /\ fetchPending > 0
  /\ fetchPending' = fetchPending - 1
  /\ ClearIntervalRef
  /\ UNCHANGED <<screen, devices, isScanning, bluetoothEnabled, error, timeouts,
                 startPc, stopPending, nativeScanning, probePending, now, events, refreshing, oldVars, notices>>

\* the fetch rejects: logged, nothing else
PollFetchFails ==
  /\ fetchPending > 0
  /\ fetchPending' = fetchPending - 1
  /\ UNCHANGED <<screen, devices, isScanning, bluetoothEnabled, error, scanIntervalRef,
                 intervals, timeouts, startPc, stopPending, nativeScanning,
                 probePending, now, events, refreshing, oldVars, notices>>

(***************************************************************************)
(* stopScan and its callers                                                *)
(***************************************************************************)

\* the setTimeout of startScan fires and calls stopScan()
DurationTimeout ==
  /\ timeouts > 0
  /\ timeouts' = timeouts - 1
  /\ StopScanCall
  /\ UNCHANGED <<screen, devices, isScanning, bluetoothEnabled, error, startPc, fetchPending,
                 nativeScanning, probePending, now, events, refreshing, oldVars, notices>>

\* the native scan ends by itself: BleManagerStopScan, whose listener is stopScan
ScanStoppedEvent ==
  /\ nativeScanning
  /\ nativeScanning' = FALSE
  /\ StopScanCall
  /\ UNCHANGED <<screen, devices, isScanning, bluetoothEnabled, error, timeouts, startPc,
                 fetchPending, probePending, now, events, refreshing, oldVars, notices>>

\* a stopScan that resets the error message when the stop primitive resolves
StopScanOk_ClearsError ==
  /\ stopPending > 0
  /\ stopPending' = stopPending - 1
  /\ nativeScanning' = FALSE
  /\ isScanning' = FALSE
  /\ error' = NoError
  /\ UNCHANGED <<screen, devices, bluetoothEnabled, scanIntervalRef, intervals,
                 timeouts, startPc, fetchPending, probePending, now, events, refreshing, oldVars, notices>>

\* BleManager.stopScan() resolves; finally: setIsScanning(false)
StopScanOk ==
  /\ stopPending > 0
  /\ stopPending' = stopPending - 1
  /\ nativeScanning' = FALSE
  /\ isScanning' = FALSE
  /\ UNCHANGED <<screen, devices, bluetoothEnabled, error, scanIntervalRef, intervals,
                 timeouts, startPc, fetchPending, probePending, now, events, refreshing, oldVars, notices>>

\* a stopScan whose setIsScanning(false) sits in the try block, not in finally
StopScanFails_KeepsScanning ==
  /\ stopPending > 0
  /\ stopPending' = stopPending - 1
  /\ error' = ScanStopError
  /\ UNCHANGED <<screen, devices, isScanning, bluetoothEnabled, scanIntervalRef,
                 intervals, timeouts, startPc, fetchPending, nativeScanning,
                 probePending, now, events, refreshing, oldVars, notices>>

\* BleManager.stopScan() rejects; catch: setError, finally: setIsScanning(false)
StopScanFails ==
  /\ stopPending > 0
  /\ stopPending' = stopPending - 1
  /\ error' = ScanStopError
  /\ isScanning' = FALSE
  /\ UNCHANGED <<screen, devices, bluetoothEnabled, scanIntervalRef, intervals, timeouts,
                 startPc, fetchPending, nativeScanning, probePending, now, events, refreshing, oldVars, notices>>

(***************************************************************************)
(* Events and the other buttons                                            *)
(***************************************************************************)

\* BleManagerDiscoverPeripheral, emitted while the native module scans
DiscoverPeripheral(peripheral) ==
  /\ nativeScanning
  /\ \E t \in Times :
       /\ t >= now
       /\ now' = t
       /\ devices' = handleDiscoverPeripheral(devices, peripheral, t)
  /\ UNCHANGED <<screen, isScanning, bluetoothEnabled, error, scanIntervalRef, intervals,
                 timeouts, startPc, stopPending, fetchPending, nativeScanning,
                 probePending, events, refreshing, oldVars, notices>>

\* the Clear List button: rendered while the list is not empty, disabled
\* while isScanning
ClearList ==
  /\ Len(devices) > 0
  /\ ~isScanning
  /\ devices' = <<>>
  /\ UNCHANGED <<screen, isScanning, bluetoothEnabled, error, scanIntervalRef, intervals,
                 timeouts, startPc, stopPending, fetchPending, nativeScanning,
                 probePending, now, events, refreshing, oldVars, notices>>

\* a listener that also ends the session when the adapter is not on
BluetoothStateEvent_EndsSession(s) ==
  /\ bluetoothEnabled' = handleBluetoothStateChange(StateEvent(s))
  /\ isScanning' = (isScanning /\ bluetoothEnabled')
  /\ UNCHANGED <<screen, devices, error, scanIntervalRef, intervals, timeouts,
                 startPc, stopPending, fetchPending, nativeScanning, probePending,
                 now, events, refreshing, oldVars, notices>>

\* BleManagerDidUpdateState: the listener is handleBluetoothStateChange
BluetoothStateEvent(s) ==
  /\ bluetoothEnabled' = handleBluetoothStateChange(StateEvent(s))
  /\ UNCHANGED <<screen, devices, isScanning, error, scanIntervalRef, intervals, timeouts,
                 startPc, stopPending, fetchPending, nativeScanning, probePending,
                 now, events, refreshing, oldVars, notices>>

\* checkInitialBluetoothState: checkState() resolves with a state string
InitialStateOk(s) ==
  /\ probePending
  /\ probePending' = FALSE
  /\ bluetoothEnabled' = handleBluetoothStateChange(StateString(s))
  /\ UNCHANGED <<screen, devices, isScanning, error, scanIntervalRef, intervals, timeouts,
                 startPc, stopPending, fetchPending, nativeScanning, now, events, refreshing, oldVars, notices>>

\* checkInitialBluetoothState: checkState() rejects
InitialStateFails ==
  /\ probePending
  /\ probePending' = FALSE
  /\ bluetoothEnabled' = FALSE
  /\ UNCHANGED <<screen, devices, isScanning, error, scanIntervalRef, intervals, timeouts,
                 startPc, stopPending, fetchPending, nativeScanning, now, events, refreshing, oldVars, notices>>

Next ==
  \/ PressScan
  \/ \E outcome \in PermissionOutcomes : PermissionsResult(outcome)
  \/ EnableBluetoothOk
  \/ EnableBluetoothFails
  \/ ScanOk
  \/ ScanFails
  \/ \E h \in Handles : PollTick(h)
  \/ \E peripherals \in Snapshots : PollFetchOk(peripherals)
  \/ PollFetchFails
  \/ DurationTimeout
  \/ ScanStoppedEvent
  \/ StopScanOk
  \/ StopScanFails
  \/ \E peripheral \in Nearby : DiscoverPeripheral(peripheral)
  \/ ClearList

\* The scan lifecycle and the registry.  No action of Next reads or writes
\* bluetoothEnabled or probePending, and the adapter actions read and write
\* nothing else, so the adapter mirror is checked under SpecAdapter.
Spec == Init /\ [][Next]_vars

\* what is in range, and what a fetch resolves with, while the target is the
\* only peripheral that advertises
TargetNearby == {peripheral \in Nearby : peripheral.id = TargetId}
TargetSnapshots == {peripherals \in Snapshots : IdsOf(peripherals) \subseteq {TargetId}}

\* the lifecycle while the target is the only peripheral that advertises,
\* together with the adapter listener and the initial probe
NextAdapter ==
  \/ PressScan
  \/ \E outcome \in PermissionOutcomes : PermissionsResult(outcome)
  \/ EnableBluetoothOk
  \/ EnableBluetoothFails
  \/ ScanOk
  \/ ScanFails
  \/ \E h \in Handles : PollTick(h)
  \/ \E peripherals \in TargetSnapshots : PollFetchOk(peripherals)
  \/ PollFetchFails
  \/ DurationTimeout
  \/ ScanStoppedEvent
  \/ StopScanOk
  \/ StopScanFails
  \/ \E peripheral \in TargetNearby : DiscoverPeripheral(peripheral)
  \/ ClearList
  \/ \E s \in AdapterStates : BluetoothStateEvent(s)
  \/ \E s \in AdapterStates : InitialStateOk(s)
  \/ InitialStateFails

\* the adapter mirror is the same code on both screens of part_001; it is
\* followed on the targeted one
InitAdapter == Init /\ screen = "target"

SpecAdapter == InitAdapter /\ [][NextAdapter]_vars

(***************************************************************************)
(* The discovery merge on its own: handleDiscoverPeripheral applied to a   *)
(* sequence of events, starting from the empty registry of a new scan,     *)
(* with no poll result and no clear in between.  events records the        *)
(* sequence processed so far.                                              *)
(***************************************************************************)
MergeTimes == 1..MaxMergeTime

MergeEvent(peripheral) ==
  /\ Len(events) < MaxEvents
  /\ \E t \in MergeTimes :
       /\ t >= now
       /\ now' = t
       /\ devices' = handleDiscoverPeripheral(devices, peripheral, t)
  /\ events' = Append(events, peripheral)
  /\ UNCHANGED <<screen, isScanning, bluetoothEnabled, error, scanIntervalRef,
                 intervals, timeouts, startPc, stopPending, fetchPending,
                 nativeScanning, probePending, refreshing, oldVars, notices>>

NextMerge == \E peripheral \in Peripherals : MergeEvent(peripheral)

SpecMerge == Init /\ [][NextMerge]_vars

(***************************************************************************)
(* The writers of the registry on their own, for the three screens: the    *)
(* two of part_001 and the older one of part_000 ("old"), whose discovery  *)
(* handler merges field by field and which has a Refresh button.  Every    *)
(* writer may run at any time, in any order.                               *)
(***************************************************************************)
RegistryScreens == Screens \cup {"old"}

\* arrays getConnectedPeripherals may resolve with
ConnectedLists == UNION {[1..n -> Nearby] : n \in 0..MaxConnected}

\* part_000 handleDiscoverPeripheral: findIndex, then push or spread-merge
handleDiscoverPeripheralOld(prevDevices, peripheral) ==
  IF \A i \in 1..Len(prevDevices) : prevDevices[i].id # peripheral.id
  THEN Append(prevDevices, peripheral)
  ELSE LET existingDeviceIndex ==
             CHOOSE i \in 1..Len(prevDevices) :
               /\ prevDevices[i].id = peripheral.id
               /\ \A j \in 1..(i - 1) : prevDevices[j].id # peripheral.id
       IN [prevDevices EXCEPT ![existingDeviceIndex] = peripheral @@ @]

\* a merge that never finds the connected peripheral in allDevices
ConnectedMissing_Always(allDevices, connected) == TRUE

\* refreshDevices: !allDevices.find((device) => device.id === connected.id)
ConnectedMissing(allDevices, connected) ==
  \A i \in 1..Len(allDevices) : allDevices[i].id # connected.id

\* a merge that leaves the connected peripherals out
PushConnected_DiscoveredOnly(allDevices, connectedPeripherals) == allDevices

RECURSIVE PushConnected(_, _)
\* refreshDevices: connectedPeripherals.forEach(... allDevices.push ...)
PushConnected(allDevices, connectedPeripherals) ==
  IF connectedPeripherals = <<>> THEN allDevices
  ELSE LET connected == Head(connectedPeripherals)
       IN PushConnected(
            IF ConnectedMissing(allDevices, connected)
            THEN Append(allDevices, [connected |-> TRUE] @@ connected)
            ELSE allDevices,
            Tail(connectedPeripherals))

InitRegistry ==
  /\ screen \in RegistryScreens
  /\ devices = <<>>
  /\ isScanning = FALSE
  /\ bluetoothEnabled = FALSE
  /\ error = NoError
  /\ scanIntervalRef = NULL
  /\ intervals = {}
  /\ timeouts = 0
  /\ startPc = [a \in Awaits |-> 0]
  /\ stopPending = 0
  /\ fetchPending = 0
  /\ nativeScanning = FALSE
  /\ probePending = TRUE
  /\ now = 1
  /\ events = <<>>
  /\ refreshing = <<>>
  /\ scanning = FALSE
  /\ scanInterval = NULL
  /\ intervalTimeouts = {}
  /\ effectRuns = 1
  /\ oldPc = [a \in OldAwaits |-> 0]
  /\ stopCalls = <<>>
  /\ statusPending = 1
  /\ notices = 0

\* everything but the registry, the clock and the refreshes in flight
others == <<screen, isScanning, bluetoothEnabled, error, scanIntervalRef, intervals,
            timeouts, startPc, stopPending, fetchPending, nativeScanning,
            probePending, events, oldVars, notices>>

\* a discovery event reaches the screen's handleDiscoverPeripheral
RegistryEvent(peripheral) ==
  /\ \E t \in Times :
       /\ t >= now
       /\ now' = t
       /\ devices' = IF screen = "old"
                     THEN handleDiscoverPeripheralOld(devices, peripheral)
                     ELSE handleDiscoverPeripheral(devices, peripheral, t)
  /\ UNCHANGED <<others, refreshing>>

\* a poll fetch resolves (part_000: the same callback as the all-devices one)
RegistryPoll(peripherals) ==
  /\ devices' = IF screen = "old"
                THEN PollUpdateAll(devices, peripherals)
                ELSE PollUpdate(devices, peripherals)
  /\ UNCHANGED <<others, now, refreshing>>

\* setDevices([]): a scan start, or the Clear List button of part_001
RegistryClear ==
  /\ devices' = <<>>
  /\ UNCHANGED <<others, now, refreshing>>

\* refreshDevices: getDiscoveredPeripherals resolves; setDevices(discovered),
\* then await getConnectedPeripherals()
RefreshDiscovered(discoveredPeripherals) ==
  /\ screen = "old"
  /\ Len(refreshing) < MaxRefreshes
  /\ devices' = discoveredPeripherals
  /\ refreshing' = Append(refreshing, discoveredPeripherals)
  /\ UNCHANGED <<others, now>>

\* refreshDevices: getConnectedPeripherals resolves; merge, setDevices(allDevices)
RefreshConnected(connectedPeripherals) ==
  /\ refreshing # <<>>
  /\ \E k \in 1..Len(refreshing) :
       /\ devices' = PushConnected(refreshing[k], connectedPeripherals)
       /\ refreshing' = SubSeq(refreshing, 1, k - 1) \o
                        SubSeq(refreshing, k + 1, Len(refreshing))
  /\ UNCHANGED <<others, now>>

\* refreshDevices: getConnectedPeripherals rejects; the catch only logs
RefreshFails ==
  /\ refreshing # <<>>
  /\ \E k \in 1..Len(refreshing) :
       refreshing' = SubSeq(refreshing, 1, k - 1) \o
                     SubSeq(refreshing, k + 1, Len(refreshing))
  /\ UNCHANGED <<others, now, devices>>

NextRegistry ==
  \/ \E peripheral \in Peripherals : RegistryEvent(peripheral)
  \/ \E peripherals \in Snapshots : RegistryPoll(peripherals)
  \/ RegistryClear
  \/ \E peripherals \in Snapshots : RefreshDiscovered(peripherals)
  \/ \E connected \in ConnectedLists : RefreshConnected(connected)
  \/ RefreshFails

SpecRegistry == InitRegistry /\ [][NextRegistry]_vars

(***************************************************************************)
(* The poll callback of the all-devices screen on its own: after a scan    *)
(* start has emptied the registry, the fetches of successive ticks resolve *)
(* one after the other, with no discovery event in between.  events        *)
(* records the snapshots processed so far.                                 *)
(***************************************************************************)
InitPoll == Init /\ screen = "all"

PollSnapshot(peripherals) ==
  /\ Len(events) < MaxEvents
  /\ devices' = PollUpdateAll(devices, peripherals)
  /\ events' = Append(events, peripherals)
  /\ UNCHANGED <<screen, isScanning, bluetoothEnabled, error, scanIntervalRef,
                 intervals, timeouts, startPc, stopPending, fetchPending,
                 nativeScanning, probePending, now, refreshing, oldVars, notices>>

NextPoll == \E peripherals \in Snapshots : PollSnapshot(peripherals)

SpecPoll == InitPoll /\ [][NextPoll]_vars

(***************************************************************************)
(* The older scanner screen (part_000).  Its poll callback and its         *)
(* discovery handler are the ones defined above, its refresh is followed   *)
(* in SpecRegistry; the session is                                         *)
(* kept in scanning and scanInterval, both component state, and the effect *)
(* that initialises the native module and registers the listeners has      *)
(* scanInterval as its dependency, so it runs again after every render     *)
(* that changed scanInterval: its cleanup removes the listeners and        *)
(* cancels the interval the previous run captured, then BleManager.start   *)
(* and checkBluetoothStatus are called and the listeners are registered    *)
(* anew.  The effect of a render is taken together with the update that    *)
(* caused the render.                                                      *)
(***************************************************************************)

\* component state and bookkeeping of part_001 that part_000 does not have
mainOnly == <<screen, isScanning, error, scanIntervalRef, timeouts, startPc, stopPending,
              probePending, now, events, notices>>

OldStartsInFlight == oldPc["permissions"] + oldPc["connected"] + oldPc["scan"]

OldResume(from, to) ==
  IF to = "return"
    THEN [oldPc EXCEPT ![from] = @ - 1]
    ELSE [oldPc EXCEPT ![from] = @ - 1, ![to] = @ + 1]

InitOld ==
  /\ screen = "old"
  /\ devices = <<>>
  /\ isScanning = FALSE
  /\ bluetoothEnabled = FALSE
  /\ error = NoError
  /\ scanIntervalRef = NULL
  /\ intervals = {}
  /\ timeouts = 0
  /\ startPc = [a \in Awaits |-> 0]
  /\ stopPending = 0
  /\ fetchPending = 0
  /\ nativeScanning = FALSE
  /\ probePending = FALSE
  /\ now = 1
  /\ events = <<>>
  /\ refreshing = <<>>
  /\ scanning = FALSE
  /\ scanInterval = NULL
  /\ intervalTimeouts = {}
  /\ effectRuns = 1
  /\ oldPc = [a \in OldAwaits |-> 0]
  /\ stopCalls = <<>>
  /\ statusPending = 1
  /\ notices = 0

\* setScanInterval(value) after the handler has left the intervals of armed
\* armed, and the effect of the render that follows
SetScanInterval(value, armed) ==
  /\ scanInterval' = value
  /\ IF value = scanInterval
       THEN /\ intervals' = armed
            /\ UNCHANGED <<effectRuns, statusPending>>
       ELSE /\ intervals' = armed \ {scanInterval}
            /\ effectRuns' = IF effectRuns < MaxEffectRuns THEN effectRuns + 1
                                                           ELSE effectRuns
            /\ statusPending' = IF statusPending < MaxStatus THEN statusPending + 1
                                                             ELSE statusPending

\* if (scanInterval) { clearInterval(scanInterval); setScanInterval(null); }
\* for the scanInterval value the running closure sees
ClearCaptured(captured) ==
  IF captured # NULL
    THEN SetScanInterval(NULL, intervals \ {captured})
    ELSE UNCHANGED <<scanInterval, intervals, effectRuns, statusPending>>

\* checkBluetoothStatus: checkState() resolves
OldStatusResult(s) ==
  /\ statusPending > 0
  /\ statusPending' = statusPending - 1
  /\ bluetoothEnabled' = (s = "on")
  /\ UNCHANGED <<mainOnly, devices, intervals, fetchPending, nativeScanning, refreshing,
                 scanning, scanInterval, intervalTimeouts, effectRuns, oldPc, stopCalls>>

\* checkBluetoothStatus: checkState() rejects; the catch only logs
OldStatusFails ==
  /\ statusPending > 0
  /\ statusPending' = statusPending - 1
  /\ UNCHANGED <<mainOnly, devices, bluetoothEnabled, intervals, fetchPending,
                 nativeScanning, refreshing, scanning, scanInterval, intervalTimeouts,
                 effectRuns, oldPc, stopCalls>>

\* BleManagerDidUpdateState: handleBluetoothStateChange reads args.state
OldStateEvent(s) ==
  /\ bluetoothEnabled' = (StateEvent(s).state = "on")
  /\ UNCHANGED <<mainOnly, devices, intervals, fetchPending, nativeScanning, refreshing,
                 oldVars>>

\* the scan button (disabled={!bluetoothEnabled}) while scanning is false:
\* startScan up to await requestPermissions()
OldPressStart ==
  /\ bluetoothEnabled
  /\ ~scanning
  /\ OldStartsInFlight < MaxStarts
  /\ oldPc' = [oldPc EXCEPT !["permissions"] = @ + 1]
  /\ UNCHANGED <<mainOnly, devices, bluetoothEnabled, intervals, fetchPending,
                 nativeScanning, refreshing, scanning, scanInterval, intervalTimeouts,
                 effectRuns, stopCalls, statusPending>>

\* requestPermissions() has returned hasPermissions
OldPermissionsResult(hasPermissions) ==
  /\ oldPc["permissions"] > 0
  /\ IF hasPermissions
       THEN /\ devices' = <<>>
            /\ scanning' = TRUE
            /\ oldPc' = OldResume("permissions", "connected")
       ELSE /\ oldPc' = OldResume("permissions", "return")
            /\ UNCHANGED <<devices, scanning>>
  /\ UNCHANGED <<mainOnly, bluetoothEnabled, intervals, fetchPending, nativeScanning,
                 refreshing, scanInterval, intervalTimeouts, effectRuns, stopCalls,
                 statusPending>>

\* getConnectedPeripherals() resolves: startScan goes on to await scan()
OldConnectedOk ==
  /\ oldPc["connected"] > 0
  /\ oldPc' = OldResume("connected", "scan")
  /\ UNCHANGED <<mainOnly, devices, bluetoothEnabled, intervals, fetchPending,
                 nativeScanning, refreshing, scanning, scanInterval, intervalTimeouts,
                 effectRuns, stopCalls, statusPending>>

\* getConnectedPeripherals() or scan() rejects: the catch block of startScan
OldStartFails(at) ==
  /\ oldPc[at] > 0
  /\ oldPc' = OldResume(at, "return")
  /\ scanning' = FALSE
  /\ UNCHANGED <<mainOnly, devices, bluetoothEnabled, intervals, fetchPending,
                 nativeScanning, refreshing, scanInterval, intervalTimeouts, effectRuns,
                 stopCalls, statusPending>>

\* interval handles something still refers to
HandlesInUse ==
  intervals \cup intervalTimeouts \cup {scanInterval}
    \cup {stopCalls[k] : k \in 1..Len(stopCalls)}

\* scan() resolves: setInterval, setScanInterval(interval), setTimeout
OldScanOk ==
  /\ oldPc["scan"] > 0
  /\ \E interval \in Handles \ HandlesInUse :
       /\ SetScanInterval(interval, intervals \cup {interval})
       /\ intervalTimeouts' = intervalTimeouts \cup {interval}
  /\ oldPc' = OldResume("scan", "return")
  /\ nativeScanning' = TRUE
  /\ UNCHANGED <<mainOnly, devices, bluetoothEnabled, fetchPending, refreshing, scanning,
                 stopCalls>>

\* the 10 s timer of a scan start fires: clearInterval(interval);
\* setScanInterval(null)
OldTimeout(interval) ==
  /\ interval \in intervalTimeouts
  /\ intervalTimeouts' = intervalTimeouts \ {interval}
  /\ SetScanInterval(NULL, intervals \ {interval})
  /\ UNCHANGED <<mainOnly, devices, bluetoothEnabled, fetchPending, nativeScanning,
                 refreshing, scanning, oldPc, stopCalls>>

\* the scan button while scanning is true: stopScan up to its await; the
\* closure holds the scanInterval of the render
OldPressStop ==
  /\ bluetoothEnabled
  /\ scanning
  /\ Len(stopCalls) < MaxStops
  /\ stopCalls' = Append(stopCalls, scanInterval)
  /\ UNCHANGED <<mainOnly, devices, bluetoothEnabled, intervals, fetchPending,
                 nativeScanning, refreshing, scanning, scanInterval, intervalTimeouts,
                 effectRuns, oldPc, statusPending>>

\* BleManager.stopScan() resolves: setScanning(false), then the interval
OldStopOk ==
  /\ stopCalls # <<>>
  /\ stopCalls' = Tail(stopCalls)
  /\ nativeScanning' = FALSE
  /\ scanning' = FALSE
  /\ ClearCaptured(Head(stopCalls))
  /\ UNCHANGED <<mainOnly, devices, bluetoothEnabled, fetchPending, refreshing,
                 intervalTimeouts, oldPc>>

\* BleManager.stopScan() rejects: the catch only logs
OldStopFails ==
  /\ stopCalls # <<>>
  /\ stopCalls' = Tail(stopCalls)
  /\ UNCHANGED <<mainOnly, devices, bluetoothEnabled, intervals, fetchPending,
                 nativeScanning, refreshing, scanning, scanInterval, intervalTimeouts,
                 effectRuns, oldPc, statusPending>>

\* BleManagerStopScan: handleStopScan of the current effect run
OldScanStoppedEvent ==
  /\ nativeScanning
  /\ nativeScanning' = FALSE
  /\ scanning' = FALSE
  /\ ClearCaptured(scanInterval)
  /\ UNCHANGED <<mainOnly, devices, bluetoothEnabled, fetchPending, refreshing,
                 intervalTimeouts, oldPc, stopCalls>>

\* BleManagerDiscoverPeripheral, emitted while the native module scans
OldDiscoverPeripheral(peripheral) ==
  /\ nativeScanning
  /\ devices' = handleDiscoverPeripheralOld(devices, peripheral)
  /\ UNCHANGED <<mainOnly, bluetoothEnabled, intervals, fetchPending, nativeScanning,
                 refreshing, oldVars>>

\* the screen while the target is the only peripheral that advertises
NextOld ==
  \/ \E s \in AdapterStates : OldStatusResult(s)
  \/ OldStatusFails
  \/ \E s \in AdapterStates : OldStateEvent(s)
  \/ OldPressStart
  \/ \E hasPermissions \in BOOLEAN : OldPermissionsResult(hasPermissions)
  \/ OldConnectedOk
  \/ \E at \in {"connected", "scan"} : OldStartFails(at)
  \/ OldScanOk
  \/ \E interval \in Handles : OldTimeout(interval)
  \/ OldPressStop
  \/ OldStopOk
  \/ OldStopFails
  \/ OldScanStoppedEvent
  \/ \E h \in Handles : PollTick(h)
  \/ \E peripherals \in TargetSnapshots : PollFetchOk(peripherals)
  \/ PollFetchFails
  \/ \E peripheral \in TargetNearby : OldDiscoverPeripheral(peripheral)
SpecOld == InitOld /\ [][NextOld]_vars

(***************************************************************************)
(* The targeted screen with a native module that answers every stop call   *)
(* that resolves with a BleManagerStopScan notification.  The listener of  *)
(* that notification is stopScan.                                          *)
(***************************************************************************)
InitNotify == Init /\ screen = "target"

\* BleManager.stopScan() resolves and the module emits BleManagerStopScan;
\* finally: setIsScanning(false)
StopScanAnswered ==
  /\ stopPending > 0
  /\ notices < MaxNotices
  /\ stopPending' = stopPending - 1
  /\ notices' = notices + 1
  /\ nativeScanning' = FALSE
  /\ isScanning' = FALSE
  /\ UNCHANGED <<screen, devices, bluetoothEnabled, error, scanIntervalRef, intervals,
                 timeouts, startPc, fetchPending, probePending, now, events, refreshing,
                 oldVars>>

\* the notification is delivered: its listener, stopScan, runs up to its await
NoticeDelivered ==
  /\ notices > 0
  /\ notices' = notices - 1
  /\ StopScanCall
  /\ UNCHANGED <<screen, devices, isScanning, bluetoothEnabled, error, timeouts, startPc,
                 fetchPending, nativeScanning, probePending, now, events, refreshing,
                 oldVars>>

NextNotify ==
  \/ PressScan
  \/ \E outcome \in PermissionOutcomes : PermissionsResult(outcome)
  \/ EnableBluetoothOk
  \/ EnableBluetoothFails
  \/ ScanOk
  \/ ScanFails
  \/ \E h \in Handles : PollTick(h)
  \/ \E peripherals \in TargetSnapshots : PollFetchOk(peripherals)
  \/ PollFetchFails
  \/ DurationTimeout
  \/ ScanStoppedEvent
  \/ StopScanAnswered
  \/ StopScanFails
  \/ NoticeDelivered
  \/ \E peripheral \in TargetNearby : DiscoverPeripheral(peripheral)
  \/ ClearList

\* a notification that was emitted is delivered, and a stop call settles
FairNotify ==
  /\ WF_vars(NoticeDelivered)
  /\ WF_vars(StopScanAnswered \/ StopScanFails)

SpecNotify == InitNotify /\ [][NextNotify]_vars /\ FairNotify

(***************************************************************************)
(* The discovery handlers of the three screens on their own, applied to a  *)
(* sequence of events from the empty registry; events records the          *)
(* sequence processed so far.                                              *)
(***************************************************************************)
InsertEvent(peripheral) ==
  /\ Len(events) < MaxEvents
  /\ \E t \in MergeTimes :
       /\ t >= now
       /\ now' = t
       /\ devices' = IF screen = "old"
                     THEN handleDiscoverPeripheralOld(devices, peripheral)
                     ELSE handleDiscoverPeripheral(devices, peripheral, t)
  /\ events' = Append(events, peripheral)
  /\ UNCHANGED <<screen, isScanning, bluetoothEnabled, error, scanIntervalRef,
                 intervals, timeouts, startPc, stopPending, fetchPending,
                 nativeScanning, probePending, refreshing, oldVars, notices>>

NextInsert == \E peripheral \in Peripherals : InsertEvent(peripheral)

SpecInsert == InitRegistry /\ [][NextInsert]_vars

(***************************************************************************)
(* Overlapping poll fetches of one session on the all-devices screen: a    *)
(* tick issues a fetch whether or not an earlier one has resolved, and the *)
(* fetches resolve in any order.  events lists the fetches in the order    *)
(* they were issued, each with the snapshot it resolves with and with its  *)
(* rank of arrival (0 while it is in flight).                              *)
(***************************************************************************)
Arrived == {k \in 1..Len(events) : events[k].arrived > 0}

\* a tick: the callback calls getDiscoveredPeripherals()
FetchIssued(peripherals) ==
  /\ Len(events) < MaxEvents
  /\ events' = Append(events, [snapshot |-> peripherals, arrived |-> 0])
  /\ UNCHANGED <<screen, devices, isScanning, bluetoothEnabled, error, scanIntervalRef,
                 intervals, timeouts, startPc, stopPending, fetchPending,
                 nativeScanning, probePending, now, refreshing, oldVars, notices>>

\* the fetch issued k-th resolves: the rest of the callback runs
FetchArrived(k) ==
  /\ k \in 1..Len(events)
  /\ events[k].arrived = 0
  /\ devices' = PollUpdateAll(devices, events[k].snapshot)
  /\ events' = [events EXCEPT ![k].arrived = Cardinality(Arrived) + 1]
  /\ UNCHANGED <<screen, isScanning, bluetoothEnabled, error, scanIntervalRef,
                 intervals, timeouts, startPc, stopPending, fetchPending,
                 nativeScanning, probePending, now, refreshing, oldVars, notices>>

NextFetch ==
  \/ \E peripherals \in Snapshots : FetchIssued(peripherals)
  \/ \E k \in 1..MaxEvents : FetchArrived(k)

SpecFetch == InitPoll /\ [][NextFetch]_vars

(***************************************************************************)
(* The mirrored adapter flag of the three screens against the external     *)
(* module.  events lists the reports of the module in the order it made    *)
(* them: the state it read for the startup probe and the state of each     *)
(* BleManagerDidUpdateState notification, each with whether the screen has *)
(* handled it yet.  Notifications are handled in the order they were       *)
(* emitted; the continuation of the probe's await runs at any time after   *)
(* the module has read the state.                                          *)
(***************************************************************************)
ProbeReports == {k \in 1..Len(events) : events[k].source = "probe"}
Unhandled == {k \in 1..Len(events) : ~events[k].handled}

\* the probe of the mount is in flight
ProbeOutstanding == IF screen = "old" THEN statusPending > 0 ELSE probePending

\* the flag a notification of state s is mirrored to
EventFlag(s) ==
  IF screen = "old"
    THEN StateEvent(s).state = "on"
    ELSE handleBluetoothStateChange(StateEvent(s))

\* the flag a probe result s is mirrored to
ProbeFlag(s) ==
  IF screen = "old"
    THEN s = "on"
    ELSE handleBluetoothStateChange(StateString(s))

\* the adapter changes state: the module emits BleManagerDidUpdateState
AdapterReports(s) ==
  /\ Len(events) < MaxEvents
  /\ events' = Append(events, [source |-> "notification", state |-> s, handled |-> FALSE])
  /\ UNCHANGED <<screen, devices, isScanning, bluetoothEnabled, error, scanIntervalRef,
                 intervals, timeouts, startPc, stopPending, fetchPending,
                 nativeScanning, probePending, now, refreshing, oldVars, notices>>

\* the module serves checkState(): it reads the state the adapter is in,
\* which is the one of its last notification if it has emitted any
ProbeReads(s) ==
  /\ ProbeOutstanding
  /\ ProbeReports = {}
  /\ Len(events) < MaxEvents
  /\ events # <<>> => s = events[Len(events)].state
  /\ events' = Append(events, [source |-> "probe", state |-> s, handled |-> FALSE])
  /\ UNCHANGED <<screen, devices, isScanning, bluetoothEnabled, error, scanIntervalRef,
                 intervals, timeouts, startPc, stopPending, fetchPending,
                 nativeScanning, probePending, now, refreshing, oldVars, notices>>

\* the probe is over: probePending, or one less in statusPending
ProbeDone ==
  /\ probePending' = IF screen = "old" THEN probePending ELSE FALSE
  /\ statusPending' = IF screen = "old" THEN statusPending - 1 ELSE statusPending

\* the listener handles the oldest notification not handled yet
NotificationHandled(k) ==
  /\ k \in Unhandled
  /\ events[k].source = "notification"
  /\ \A m \in Unhandled : events[m].source = "notification" => k <= m
  /\ bluetoothEnabled' = EventFlag(events[k].state)
  /\ events' = [events EXCEPT ![k].handled = TRUE]
  /\ UNCHANGED <<screen, devices, isScanning, error, scanIntervalRef, intervals, timeouts,
                 startPc, stopPending, fetchPending, nativeScanning, probePending,
                 now, refreshing, oldVars, notices>>

\* await BleManager.checkState() resolves: the rest of the probe runs
ProbeHandled(k) ==
  /\ k \in Unhandled
  /\ events[k].source = "probe"
  /\ bluetoothEnabled' = ProbeFlag(events[k].state)
  /\ events' = [events EXCEPT ![k].handled = TRUE]
  /\ ProbeDone
  /\ UNCHANGED <<screen, devices, isScanning, error, scanIntervalRef, intervals, timeouts,
                 startPc, stopPending, fetchPending, nativeScanning, now, refreshing,
                 scanning, scanInterval, intervalTimeouts, effectRuns, oldPc, stopCalls,
                 notices>>

\* checkState() rejects: the newer screens set the flag false, the older
\* one only logs
ProbeRejected ==
  /\ ProbeOutstanding
  /\ ProbeReports = {}
  /\ bluetoothEnabled' = IF screen = "old" THEN bluetoothEnabled ELSE FALSE
  /\ ProbeDone
  /\ UNCHANGED <<screen, devices, isScanning, error, scanIntervalRef, intervals, timeouts,
                 startPc, stopPending, fetchPending, nativeScanning, now, events,
                 refreshing, scanning, scanInterval, intervalTimeouts, effectRuns, oldPc,
                 stopCalls, notices>>

NextMirror ==
  \/ \E s \in AdapterStates : AdapterReports(s)
  \/ \E s \in AdapterStates : ProbeReads(s)
  \/ \E k \in 1..MaxEvents : NotificationHandled(k)
  \/ \E k \in 1..MaxEvents : ProbeHandled(k)
  \/ ProbeRejected

SpecMirror == InitRegistry /\ [][NextMirror]_vars

(***************************************************************************)
(* Session states of the specification, read off the program state.        *)
(***************************************************************************)
AwaitingPermission == startPc["permissions"] + startPc["enable"] > 0
Scanning == isScanning
Stopping == stopPending > 0
Idle == ~isScanning

\* steps, recognised by what they do to the program state
PermissionRequested == startPc'["permissions"] > startPc["permissions"]
PermissionRefused ==
  /\ startPc'["permissions"] < startPc["permissions"]
  /\ startPc'["enable"] = startPc["enable"]
ScanStarted == startPc'["scan"] > startPc["scan"]
ScanStartFailed ==
  /\ startPc'["scan"] < startPc["scan"]
  /\ timeouts' = timeouts
StopScanCalled == stopPending' > stopPending
StopScanCompleted == stopPending' < stopPending

\* index of the last event for identifier id
LastEvent(id) ==
  CHOOSE k \in 1..Len(events) :
    /\ events[k].id = id
    /\ \A m \in 1..Len(events) : events[m].id = id => m <= k

(***************************************************************************)
(* C1.  Once the duration timer of every started scan has fired and the    *)
(* stopScan calls they made have completed (no startScan in progress), the *)
(* session is Idle and no poll interval is armed, so no poll tick fetches  *)
(* a snapshot any more.  The code violates it: two overlapping startScan   *)
(* invocations arm two intervals and the ref keeps only the second.        *)
(***************************************************************************)
C1_PollStopsAfterBudget ==
  (timeouts = 0 /\ StartsInFlight = 0 /\ stopPending = 0)
    => (~isScanning /\ intervals = {})

(***************************************************************************)
(* C2.  When a stopScan call completes and leaves the session Idle, no     *)
(* poll interval is armed.  The code violates it: a startScan suspended at *)
(* beginScan arms its interval after stopScan cleared the ref.             *)
(***************************************************************************)
C2_NoIntervalWhenIdleAfterStop ==
  [][(StopScanCompleted /\ ~isScanning') => intervals' = {}]_vars

(***************************************************************************)
(* C3.  While a session is AwaitingPermission, Scanning or Stopping, a     *)
(* startScan invocation has no side effect: in particular no further       *)
(* permission request is issued.  The code violates it: startScan has no   *)
(* guard and the scan button is enabled while isScanning is false.         *)
(***************************************************************************)
C3_StartWhileActiveIsNoOp ==
  [][(AwaitingPermission \/ Scanning \/ Stopping) => ~PermissionRequested]_vars

(***************************************************************************)
(* C4.  stopScan cancels the poll interval held in scanIntervalRef and     *)
(* invokes the stop primitive (whether the duration timer or the           *)
(* scan-stopped listener called it); when the primitive settles, with      *)
(* either outcome, isScanning is false; a failure of the primitive is      *)
(* recorded in error and changes nothing else (it is not rethrown: the     *)
(* call ends like a successful one), a success leaves error as it was.     *)
(***************************************************************************)
C4_StopScanEndsIdle ==
  [][/\ (timeouts' < timeouts) => StopScanCalled
     /\ StopScanCalled =>
          /\ stopPending' = stopPending + 1
          /\ scanIntervalRef' = NULL
          /\ intervals' = intervals \ {scanIntervalRef}
     /\ StopScanCompleted =>
          /\ ~isScanning'
          /\ error' \in {error, ScanStopError}
          /\ UNCHANGED <<devices, scanIntervalRef, intervals, timeouts, startPc>>
     /\ StopScanFails => (~isScanning' /\ error' = ScanStopError)
     /\ StopScanOk => (~isScanning' /\ error' = error)]_vars

\* a stop primitive failed: the message is recorded and the session is Idle
C4_Witness ==
  /\ error = ScanStopError
  /\ ~isScanning
  /\ stopPending = 0
  /\ scanIntervalRef = NULL

(***************************************************************************)
(* C5.  When a stopScan call completes and no startScan is in progress, no *)
(* duration timer remains pending.  The code violates it: the handle of    *)
(* setTimeout is not kept and stopScan never clears the timer.             *)
(***************************************************************************)
C5_StopCancelsDurationTimer ==
  [][(StopScanCompleted /\ StartsInFlight = 0) => timeouts' = 0]_vars

(***************************************************************************)
(* C6.  After any sequence of discovery events the registry holds exactly  *)
(* one record per distinct identifier of the sequence, and every field of  *)
(* that record other than the timestamp equals the field of the last event *)
(* received for that identifier.                                           *)
(***************************************************************************)
C6_OneRecordPerIdLastEventWins ==
  /\ IdsOf(devices) = IdsOf(events)
  /\ Len(devices) = Cardinality(IdsOf(events))
  /\ \A i \in 1..Len(devices) :
       LET last == events[LastEvent(devices[i].id)]
       IN  /\ DOMAIN devices[i] \ {"timestamp"} = DOMAIN last
           /\ \A f \in DOMAIN last : devices[i][f] = last[f]

\* two events for AA:BB, signal strength -70 then -55: one record with -55
C6_Witness ==
  /\ Len(events) = 2
  /\ events[1].id = OtherId /\ events[1].rssi = -70
  /\ events[2].id = OtherId /\ events[2].rssi = -55
  /\ Len(devices) = 1
  /\ devices[1].id = OtherId /\ devices[1].rssi = -55

(***************************************************************************)
(* C7 as stated.  Within a scan session, no step other than a scan start   *)
(* removes an identifier from the registry.  The code violates it: a poll  *)
(* result replaces the registry.                                           *)
(***************************************************************************)
C7_NeverRemovesUntilNextStart ==
  [][(isScanning /\ ~ScanStarted) => IdsOf(devices) \subseteq IdsOf(devices')]_vars

(***************************************************************************)
(* C7 as amended.  Within a scan session a discovery event never removes   *)
(* an identifier; only a resolved poll fetch does, and it replaces the     *)
(* whole registry: in the targeted screen by the single record of the      *)
(* first target device of the snapshot (name ZT02 or id                    *)
(* E5:83:27:D1:D2:94), in the all-devices screen by the non-empty          *)
(* snapshot itself.                                                        *)
(***************************************************************************)
C7_OnlyPollResultReplaces ==
  [][(isScanning /\ ~ScanStarted /\ ~(IdsOf(devices) \subseteq IdsOf(devices'))) =>
       /\ fetchPending' < fetchPending
       /\ devices' \in Snapshots \ {<<>>}
       /\ screen = "target" => (Len(devices') = 1 /\ IsTarget(devices'[1]))]_vars

\* targeted screen, mid-scan: the registry is the one record a poll result put
\* there (a record of the snapshot, which has no timestamp)
C7_Witness ==
  /\ screen = "target"
  /\ isScanning
  /\ Len(devices) = 1
  /\ devices \in Snapshots
  /\ IsTarget(devices[1])

(***************************************************************************)
(* C8.  No step taken while isScanning is true empties a non-empty         *)
(* registry.  The code violates it: the setDevices([]) of a second,        *)
(* overlapping startScan invocation runs while the first one's session is  *)
(* scanning.                                                               *)
(***************************************************************************)
C8_NeverEmptiedMidScan ==
  [][(isScanning /\ devices # <<>>) => devices' # <<>>]_vars

(***************************************************************************)
(* C9 as stated.  isScanning goes from true to false only when a stopScan  *)
(* call completes, that is after the interval was cancelled and the stop   *)
(* primitive invoked.  The code violates it: the error handler of          *)
(* startScan returns to Idle when beginScan fails.                         *)
(***************************************************************************)
C9_ScanningToIdleOnlyThroughStop ==
  [][(isScanning /\ ~isScanning') => StopScanCompleted]_vars

(***************************************************************************)
(* C9 as amended.  isScanning becomes true only when a startScan           *)
(* invocation has passed the permission and the enable step and calls      *)
(* beginScan; it goes from true to false only when a stopScan call         *)
(* completes (every stopScan call has cancelled the interval held in       *)
(* scanIntervalRef and invoked the stop primitive before), or when         *)
(* beginScan fails: then the error handler of startScan cancels the        *)
(* interval held in scanIntervalRef and records the failure, without       *)
(* invoking the stop primitive.                                            *)
(***************************************************************************)
C9_SessionTransitions ==
  [][/\ (~isScanning /\ isScanning') =>
          /\ startPc'["enable"] = startPc["enable"] - 1
          /\ startPc'["scan"] = startPc["scan"] + 1
     /\ (isScanning /\ ~isScanning') =>
          \/ stopPending' = stopPending - 1
          \/ /\ ScanStartFailed
             /\ error' = ScanStartError
             /\ scanIntervalRef' = NULL
             /\ intervals' = intervals \ {scanIntervalRef}
             /\ stopPending' = stopPending
     /\ StopScanCalled =>
          /\ scanIntervalRef' = NULL
          /\ scanIntervalRef \notin intervals']_vars

\* beginScan failed after another scan had started: Idle, the message recorded,
\* no interval in the ref, no stop primitive pending
C9_Witness ==
  /\ error = ScanStartError
  /\ ~isScanning
  /\ scanIntervalRef = NULL
  /\ stopPending = 0
  /\ StartsInFlight = 0
  /\ timeouts > 0

(***************************************************************************)
(* C10.  When the permission request does not report every permission as   *)
(* granted, startScan returns with the session Idle and the                *)
(* permission-denied message set, the registry as it was, and neither the  *)
(* adapter-enable request nor beginScan issued.  The code violates the     *)
(* first part: the invocation may overlap one that is already scanning.    *)
(***************************************************************************)
C10_PermissionDeniedEndsIdle ==
  [][PermissionRefused =>
       /\ ~isScanning'
       /\ error' = PermissionError
       /\ devices' = devices
       /\ startPc'["scan"] = startPc["scan"]]_vars

\* a startScan invocation returns at the failed adapter-enable request
EnableRefused ==
  /\ startPc'["enable"] < startPc["enable"]
  /\ startPc'["scan"] = startPc["scan"]

(***************************************************************************)
(* C11.  When the adapter-enable request fails, startScan returns with the *)
(* session Idle, no beginScan call issued, no poll interval and no         *)
(* duration timer created, and the registry as it was.  The code violates  *)
(* the first part: the invocation may overlap one that is already          *)
(* scanning.                                                               *)
(***************************************************************************)
C11_EnableFailureEndsIdle ==
  [][EnableRefused =>
       /\ ~isScanning'
       /\ nativeScanning' = nativeScanning
       /\ UNCHANGED <<devices, scanIntervalRef, intervals, timeouts>>]_vars

(***************************************************************************)
(* C12.  When beginScan fails, the failure is recorded in error,           *)
(* isScanning is false, and the invocation arms neither a poll interval    *)
(* nor a duration timer: no interval is added, the ref holds none, and the *)
(* number of pending timers is as before.                                  *)
(***************************************************************************)
C12_ScanStartFailure ==
  [][ScanFails =>
       /\ error' = ScanStartError
       /\ ~isScanning'
       /\ scanIntervalRef' = NULL
       /\ intervals' \subseteq intervals
       /\ timeouts' = timeouts
       /\ startPc'["scan"] = startPc["scan"] - 1]_vars

\* a single scan start failed: Idle, the message shown, nothing armed
C12_Witness ==
  /\ error = ScanStartError
  /\ ~isScanning
  /\ intervals = {}
  /\ timeouts = 0
  /\ StartsInFlight = 0
  /\ ~nativeScanning

(***************************************************************************)
(* C13.  A failing poll fetch changes nothing but the fetch itself: the    *)
(* registry, isScanning, the error message, the ref and the armed          *)
(* intervals are as before; and whenever an interval is armed and the      *)
(* bound on fetches in flight is not reached, its next tick can issue a    *)
(* fetch (no failure disables polling).                                    *)
(***************************************************************************)
C13_PollFailureIsSilent ==
  /\ [][PollFetchFails =>
          /\ fetchPending' = fetchPending - 1
          /\ UNCHANGED <<devices, isScanning, error, scanIntervalRef, intervals,
                         timeouts, startPc, stopPending>>]_vars
  /\ [](\A h \in intervals : fetchPending < MaxFetches => ENABLED PollTick(h))

\* mid-scan, a fetch is in flight while the registry holds a device and the
\* interval is armed: the state in which a failing fetch could do harm
C13_Witness ==
  /\ fetchPending > 0
  /\ isScanning
  /\ devices # <<>>
  /\ scanIntervalRef # NULL
  /\ error = NoError

(***************************************************************************)
(* C14, as claimed.  A stopScan call made or completed while the session   *)
(* is Idle and no poll interval is armed leaves the registry, isScanning,  *)
(* the adapter flag and the error message unchanged, whatever the outcome  *)
(* of the stop primitive.  Violated: the catch block of stopScan sets the  *)
(* error message also when nothing was scanning.                           *)
(***************************************************************************)
C14_IdleStopChangesNothing ==
  [][(Idle /\ intervals = {} /\ (StopScanCalled \/ StopScanCompleted)) =>
       UNCHANGED <<devices, isScanning, bluetoothEnabled, error>>]_vars

(***************************************************************************)
(* C14, amended.  A stopScan call made or completed while the session is   *)
(* Idle and no poll interval is armed leaves the registry, isScanning, the *)
(* adapter flag, the ref and the intervals unchanged; the error message is *)
(* unchanged by the call and by a successful completion, and is the        *)
(* stop-failure message after a failed one.  Hence a second stopScan with  *)
(* the same outcome leaves the state the first one left.                   *)
(***************************************************************************)
C14_IdleStopRecordsOnlyFailure ==
  [][(Idle /\ intervals = {}) =>
       /\ (StopScanCalled \/ StopScanCompleted) =>
            UNCHANGED <<devices, isScanning, bluetoothEnabled, scanIntervalRef,
                        intervals, startPc>>
       /\ StopScanCalled => error' = error
       /\ StopScanOk => error' = error
       /\ StopScanFails => error' = ScanStopError]_vars

\* a stopScan call is in flight although nothing is scanning and no start is
\* in progress; the registry of the last scan is still shown
C14_Witness ==
  /\ Idle
  /\ intervals = {}
  /\ StartsInFlight = 0
  /\ stopPending > 0
  /\ devices # <<>>

\* the user's stop action: a press of the scan button while its handler is
\* stopScan
UserStopEnabled == ScanButtonEnabled /\ ScanButtonHandler = "stopScan"

(***************************************************************************)
(* C15.  In every state in which the session is Scanning the user's stop   *)
(* action is enabled.  The code violates it: the only control whose        *)
(* handler is stopScan is the scan button, and it is disabled exactly      *)
(* while isScanning is true.                                               *)
(***************************************************************************)
C15_UserCanStopWhileScanning == Scanning => UserStopEnabled

(***************************************************************************)
(* C16.  On the targeted screen the registry never holds a peripheral      *)
(* other than the target (name ZT02 or id E5:83:27:D1:D2:94).  The code    *)
(* violates it: handleDiscoverPeripheral stores every discovered           *)
(* peripheral, only the poll callback filters.                             *)
(***************************************************************************)
C16_TargetedRegistryHoldsOnlyTarget ==
  screen = "target" => \A i \in 1..Len(devices) : IsTarget(devices[i])

(***************************************************************************)
(* C17.  The registry never holds two records with the same identifier,    *)
(* whatever sequence of discovery events, poll snapshots, refreshes,       *)
(* clears and scan starts is applied, on each of the three screens, given  *)
(* that every snapshot has distinct identifiers (the connected list of a   *)
(* refresh need not).                                                      *)
(***************************************************************************)
C17_RegistryIdsDistinct == DistinctIds(devices)

\* a refresh has merged a connected peripheral next to a discovered one
C17_Witness ==
  /\ screen = "old"
  /\ Len(devices) = 2
  /\ "connected" \in DOMAIN devices[2]
  /\ "connected" \notin DOMAIN devices[1]

\* positions of the non-empty snapshots among those processed
NonEmptyTicks == {k \in 1..Len(events) : events[k] # <<>>}

\* the last non-empty snapshot processed
LastSnapshot == events[CHOOSE k \in NonEmptyTicks : \A m \in NonEmptyTicks : m <= k]

(***************************************************************************)
(* C18.  On the all-devices screen, with no discovery events, the registry *)
(* after any sequence of poll ticks is the last non-empty snapshot, or     *)
(* empty if there was none: an empty snapshot leaves the registry as it    *)
(* was, and a snapshot of n identifiers leaves exactly n records however   *)
(* often it is repeated.                                                   *)
(***************************************************************************)
C18_PollKeepsLastNonEmptySnapshot ==
  /\ NonEmptyTicks = {} => devices = <<>>
  /\ NonEmptyTicks # {} =>
       /\ devices = LastSnapshot
       /\ Len(devices) = Cardinality(IdsOf(LastSnapshot))

\* snapshots of sizes 0, 2, 2 with the same two identifiers: two records
C18_Witness ==
  /\ Len(events) = 3
  /\ events[1] = <<>>
  /\ Len(events[2]) = 2
  /\ Len(events[3]) = 2
  /\ IdsOf(events[2]) = IdsOf(events[3])
  /\ events[2] # events[3]
  /\ Len(devices) = 2

(***************************************************************************)
(* C19.  Processing an adapter-state notification changes nothing but the  *)
(* mirrored adapter flag: registry, isScanning, the poll interval, the     *)
(* duration timers, the error message and the invocations in flight are    *)
(* as before, also while the session is Scanning.                          *)
(***************************************************************************)
C19_AdapterEventChangesOnlyFlag ==
  [][(\E s \in AdapterStates : BluetoothStateEvent(s)) =>
       UNCHANGED <<devices, isScanning, error, scanIntervalRef, intervals,
                   timeouts, startPc, stopPending, fetchPending>>]_vars

\* the session is Scanning, interval and timer armed, a device listed, and
\* the mirrored flag says the adapter is off
C19_Witness ==
  /\ isScanning
  /\ ~probePending
  /\ ~bluetoothEnabled
  /\ scanIntervalRef # NULL
  /\ timeouts > 0
  /\ devices # <<>>

(***************************************************************************)
(* C20.  After a notification or a probe reporting adapter state s, the    *)
(* adapter flag is true exactly when s is "on".  The code violates it for  *)
(* notifications: the listener compares the event object itself, not its   *)
(* state field, with "on".                                                 *)
(***************************************************************************)
C20_FlagMirrorsReportedState ==
  [][\A s \in AdapterStates :
       (BluetoothStateEvent(s) \/ InitialStateOk(s)) =>
         (bluetoothEnabled' <=> s = "on")]_vars

\* part_000: a stopScan invocation completes (either outcome)
OldStopCompleted == Len(stopCalls') < Len(stopCalls)

\* part_000: a 10 s timer of a scan start fires
OldTimerFired ==
  /\ intervalTimeouts' # intervalTimeouts
  /\ intervalTimeouts' \subseteq intervalTimeouts

\* part_000: calls of BleManager.start, one per run of the effect, and
\* rounds of listener registration, likewise
startCalls == effectRuns
listenerRegistrations == effectRuns

(***************************************************************************)
(* C21.  On the part_000 screen every completed stopScan leaves scanning   *)
(* false and no poll interval held or armed for the session, whether the   *)
(* stop primitive resolved or rejected.  The code violates it: the cleanup *)
(* follows the await inside the try block, so a rejection skips it.        *)
(***************************************************************************)
C21_OldStopAlwaysCleansUp ==
  [][OldStopCompleted =>
       /\ ~scanning'
       /\ scanInterval' = NULL
       /\ intervals' = {}]_vars

(***************************************************************************)
(* C22.  On the part_000 screen, once the 10 s timer of a scan start has   *)
(* fired, scanning is false and the poll interval is cancelled, with or    *)
(* without a scan-stopped notification.  The code violates the first part: *)
(* the timer callback cancels the interval and never calls                 *)
(* setScanning(false).                                                     *)
(***************************************************************************)
C22_OldTimerEndsScan ==
  [][OldTimerFired =>
       /\ ~scanning'
       /\ (intervalTimeouts \ intervalTimeouts') \cap intervals' = {}]_vars

(***************************************************************************)
(* C23.  On the part_000 screen BleManager.start is called once and the    *)
(* listeners are registered once while the screen stays mounted.  The code *)
(* violates it: the effect depends on scanInterval, so it runs again after *)
(* every scan start, timeout and stop that changes scanInterval.           *)
(***************************************************************************)
C23_InitialisedOncePerMount == startCalls = 1 /\ listenerRegistrations = 1

(***************************************************************************)
(* C24.  At most one poll interval is armed, and every armed interval is   *)
(* the one whose handle scanIntervalRef holds.  The code violates it: two  *)
(* startScan invocations that both wait for scan() each arm an interval,   *)
(* and the second assignment to the ref drops the first handle.            *)
(***************************************************************************)
C24_NoOrphanInterval ==
  /\ Cardinality(intervals) <= 1
  /\ intervals \subseteq {scanIntervalRef}

\* a duration timer fires (its callback is stopScan)
DurationTimerFired == timeouts' < timeouts

(***************************************************************************)
(* C25.  A duration timer that fires while the session is Scanning is the  *)
(* timer of that session: it is the only one pending, and the session has  *)
(* armed it (no startScan is still waiting for scan()).  The code violates *)
(* it: a session ended early by the scan-stopped notification leaves its   *)
(* timer pending, and the timer calls stopScan during the next session.    *)
(***************************************************************************)
C25_TimerEndsOnlyItsOwnSession ==
  [][(DurationTimerFired /\ Scanning) =>
       (timeouts = 1 /\ startPc["scan"] = 0)]_vars

(***************************************************************************)
(* C26.  If from some point on no scan is started any more, then from some *)
(* point on no stopScan call (and so no call of the stop primitive) is     *)
(* made, also when the native module answers every stop call with a        *)
(* scan-stopped notification.  The code violates it: the listener of the   *)
(* notification is stopScan, which calls the stop primitive again.         *)
(***************************************************************************)
C26_StopHandlingQuiesces ==
  <>[][~PermissionRequested]_vars => <>[][~StopScanCalled]_vars

\* a startScan invocation issues the adapter-enable request
EnableRequested == startPc'["enable"] > startPc["enable"]

(***************************************************************************)
(* C27.  startScan takes its steps in order: the adapter-enable request is *)
(* issued only by an invocation whose permission request has just settled  *)
(* with every permission granted, and scan() is called only by an          *)
(* invocation whose enable request has just resolved, in the step that     *)
(* has emptied the registry and set isScanning.                            *)
(***************************************************************************)
C27_StartScanOrder ==
  [][/\ EnableRequested =>
          /\ startPc'["permissions"] = startPc["permissions"] - 1
          /\ \A outcome \in PermissionOutcomes :
               PermissionsResult(outcome) => checkPermissions(outcome)
     /\ ScanStarted =>
          /\ startPc'["enable"] = startPc["enable"] - 1
          /\ devices' = <<>>
          /\ isScanning']_vars

\* "Scan Again": a second scan has called scan(), the registry of the first
\* is gone although its timer is still pending
C27_Witness ==
  /\ startPc["scan"] = 1
  /\ isScanning
  /\ devices = <<>>
  /\ timeouts > 0
  /\ StartsInFlight = 1

\* the fetch that resolved last, and the last one that resolved with a
\* non-empty snapshot
LastArrived == CHOOSE k \in Arrived : \A m \in Arrived : events[m].arrived <= events[k].arrived
ArrivedNonEmpty == {k \in Arrived : events[k].snapshot # <<>>}
LastArrivedNonEmpty ==
  CHOOSE k \in ArrivedNonEmpty :
    \A m \in ArrivedNonEmpty : events[m].arrived <= events[k].arrived

(***************************************************************************)
(* C28, as claimed.  Once every issued fetch has resolved, the registry    *)
(* holds the snapshot of the fetch that resolved last.  Violated: an empty *)
(* snapshot that arrives last leaves the snapshot that arrived before it.  *)
(***************************************************************************)
C28_LastArrivalWins ==
  (Arrived # {} /\ Arrived = 1..Len(events)) => devices = events[LastArrived].snapshot

(***************************************************************************)
(* C28, amended.  At any time the registry holds the snapshot of the fetch *)
(* that resolved last among those that resolved with a non-empty snapshot, *)
(* whatever the order of issue, and is empty if there is none: never a     *)
(* mixture of two snapshots.                                               *)
(***************************************************************************)
C28_LastNonEmptyArrivalWins ==
  /\ ArrivedNonEmpty = {} => devices = <<>>
  /\ ArrivedNonEmpty # {} => devices = events[LastArrivedNonEmpty].snapshot

\* two overlapping fetches resolved against the order of issue, with
\* different non-empty snapshots: the registry holds that of the first issued
C28_Witness ==
  /\ Len(events) = 2
  /\ events[1].arrived = 2
  /\ events[2].arrived = 1
  /\ events[1].snapshot # <<>>
  /\ events[2].snapshot # <<>>
  /\ events[1].snapshot # events[2].snapshot
  /\ devices = events[1].snapshot

\* a poll fetch resolves with a snapshot: the rest of the callback runs
PollResolved == fetchPending' < fetchPending

(***************************************************************************)
(* C29.  A poll fetch issued during one session never writes into the      *)
(* registry of a later session: while a start that has cleared the         *)
(* registry awaits the scan primitive and every poll interval armed before *)
(* has been cleared, a fetch still in flight was issued by an earlier      *)
(* session, and its result leaves the registry as it is.                   *)
(***************************************************************************)
C29_LateFetchDoesNotWrite ==
  [][(PollResolved /\ isScanning /\ startPc["scan"] > 0 /\ intervals = {})
       => devices' = devices]_vars

(***************************************************************************)
(* C30.  While the session is Idle the registry changes only through the   *)
(* Clear List button: a step that starts and ends with isScanning false    *)
(* and changes the registry is the clear-list operation, never a           *)
(* peripheral-discovered event or a poll result.                           *)
(***************************************************************************)
C30_IdleRegistryChangesOnlyByClear ==
  [][(~isScanning /\ ~isScanning' /\ devices' # devices) => ClearList]_vars

\* the continuation of the probe runs after the screen has handled a
\* notification the module emitted later than it read the probed state,
\* and the two states differ
StaleProbeHandled ==
  \E k \in ProbeReports :
    /\ ~events[k].handled
    /\ events'[k].handled
    /\ \E m \in (k + 1)..Len(events) :
         /\ events[m].handled
         /\ events[m].state # events[k].state

(***************************************************************************)
(* C31.  The mirrored adapter flag reflects the most recent report: when   *)
(* the startup probe resolves after the screen has handled a notification  *)
(* of a later, different adapter state, the probed state does not          *)
(* overwrite the flag.                                                     *)
(***************************************************************************)
C31_StaleProbeDoesNotOverwrite ==
  [][StaleProbeHandled => bluetoothEnabled' = bluetoothEnabled]_vars

\* a registry with the timestamp field of every record left out
IgnoringTimestamp(list) ==
  [i \in 1..Len(list) |->
     [f \in DOMAIN list[i] \ {"timestamp"} |-> list[i][f]]]

\* the event just processed is the same as the one processed before it
SameEventAgain ==
  /\ Len(events) > 0
  /\ Len(events') = Len(events) + 1
  /\ events'[Len(events')] = events[Len(events)]

(***************************************************************************)
(* C32.  The discovery merge is idempotent: processing the same            *)
(* peripheral-discovered event a second time in succession leaves the      *)
(* registry as the first time left it (identifiers, order and field        *)
(* values), the timestamp aside.                                           *)
(***************************************************************************)
C32_MergeIdempotent ==
  [][SameEventAgain => IgnoringTimestamp(devices') = IgnoringTimestamp(devices)]_vars

\* the same event was processed twice in succession, after an event for
\* another identifier, and at a later time the second time
C32_Witness ==
  /\ Len(events) = 3
  /\ events[2] = events[3]
  /\ events[1].id # events[2].id
  /\ Len(devices) = 2
  /\ devices[2].timestamp > devices[1].timestamp

\* an event is processed: the one the log ends with afterwards
EventProcessed == Len(events') = Len(events) + 1
incoming == events'[Len(events')]

(***************************************************************************)
(* C33.  For discovery events the registry is in insertion order, on every *)
(* screen: an event for a new identifier appends its record at the end and *)
(* leaves the records before it as they were; an event for an identifier   *)
(* already present keeps the length and the identifier at every position   *)
(* and changes no record but that of its identifier.                       *)
(***************************************************************************)
C33_EventsKeepInsertionOrder ==
  [][EventProcessed =>
       IF incoming.id \notin IdsOf(devices)
         THEN /\ Len(devices') = Len(devices) + 1
              /\ SubSeq(devices', 1, Len(devices)) = devices
              /\ devices'[Len(devices')].id = incoming.id
         ELSE /\ Len(devices') = Len(devices)
              /\ \A i \in 1..Len(devices) :
                   /\ devices'[i].id = devices[i].id
                   /\ devices[i].id # incoming.id => devices'[i] = devices[i]]_vars

\* the identifier of the first record came again after a second identifier
\* was added, with other values: the first record has the new values and
\* is still first
C33_Witness ==
  /\ Len(events) = 3
  /\ events[3].id = events[1].id
  /\ events[2].id # events[1].id
  /\ events[3].rssi # events[1].rssi
  /\ Len(devices) = 2
  /\ devices[1].id = events[3].id
  /\ devices[1].rssi = events[3].rssi
  /\ devices[2].id = events[2].id

\* positions of the connected peripherals a refresh adds: identifier neither
\* in the discovered snapshot nor at an earlier position of the connected list
AddedByRefresh(discovered, connected) ==
  {j \in 1..Len(connected) :
     /\ connected[j].id \notin IdsOf(discovered)
     /\ \A i \in 1..(j - 1) : connected[i].id # connected[j].id}

\* list is the discovered snapshot followed by the connected peripherals to
\* add, in their order, each marked connected
IsRefreshResult(list, discovered, connected) ==
  LET added == AddedByRefresh(discovered, connected)
      rank(j) == Cardinality({i \in added : i <= j})
  IN  /\ Len(list) = Len(discovered) + Cardinality(added)
      /\ SubSeq(list, 1, Len(discovered)) = discovered
      /\ \A j \in added :
           LET record == list[Len(discovered) + rank(j)]
           IN  /\ record.connected = TRUE
               /\ DOMAIN record = DOMAIN connected[j] \cup {"connected"}
               /\ \A f \in DOMAIN connected[j] : record[f] = connected[j][f]

\* the discovered snapshot of the refresh that has just completed
completedRefresh ==
  refreshing[CHOOSE k \in 1..Len(refreshing) :
               refreshing' = SubSeq(refreshing, 1, k - 1) \o
                             SubSeq(refreshing, k + 1, Len(refreshing))]

(***************************************************************************)
(* C34.  In the older screen a refresh first sets the list to the          *)
(* discovered snapshot; when the connected peripherals arrive the list     *)
(* becomes that snapshot in its order followed by each connected           *)
(* peripheral whose identifier is not yet in the list, marked connected,   *)
(* without duplicate identifiers; when their fetch fails the list is left  *)
(* as the refresh set it.                                                  *)
(***************************************************************************)
C34_RefreshResult ==
  [][/\ \A discovered \in Snapshots :
          RefreshDiscovered(discovered) => devices' = discovered
     /\ \A connected \in ConnectedLists :
          RefreshConnected(connected) =>
            /\ IsRefreshResult(devices', completedRefresh, connected)
            /\ DistinctIds(devices')
     /\ RefreshFails => devices' = devices]_vars

\* a refresh is over whose connected list named a discovered peripheral and
\* one that was not discovered: only the latter was added, marked
C34_Witness ==
  /\ screen = "old"
  /\ refreshing = <<>>
  /\ Len(devices) = 2
  /\ devices[1].id = TargetId
  /\ "connected" \notin DOMAIN devices[1]
  /\ devices[2].id = OtherId
  /\ "connected" \in DOMAIN devices[2]
  /\ devices[2].connected

(***************************************************************************)
(* C35.  In the older screen a discovery event for an identifier already   *)
(* in the registry replaces the record wholesale: afterwards the record of *)
(* that identifier has exactly the fields and values of the event, none    *)
(* carried over from the record it replaces.                               *)
(***************************************************************************)
C35_OldEventReplacesWholesale ==
  [][\A peripheral \in Peripherals :
       (/\ screen = "old"
        /\ peripheral.id \in IdsOf(devices)
        /\ RegistryEvent(peripheral))
         => \A i \in 1..Len(devices') :
              devices'[i].id = peripheral.id => devices'[i] = peripheral]_vars

====
